---- MODULE Spec2Model ----
(***************************************************************************)
(* State-machine model of uznikturbo/News:                                 *)
(*   newsbot/main.py  the Telegram bot (city wizard, news wizard, the      *)
(*                    preference store, the news fetcher)                  *)
(*   newsite/app.py   the Flask site (registration, login, gated pages,    *)
(*                    the news fetcher)                                    *)
(* Four specifications share the module:                                   *)
(*   Spec       the bot: one in-flight handler per user, handlers of       *)
(*              different users interleaved at their awaits                *)
(*   SpecStore  create_or_update_city called concurrently by any callers   *)
(*   SpecWeb    the web application, requests of clients interleaved       *)
(*   SpecValid  the City Validator and the normalisation of its callers,   *)
(*              applied to every string of a bounded set                   *)
(* Texts are sequences of one-character strings.  The Ukrainian literals   *)
(* of the source are written in Latin transliteration (TLA+ strings are    *)
(* ASCII): "Новини" is Novyny, "Вибрати основне місто" is                  *)
(* Vybraty osnovne misto, "Вся Україна" is Vsia Ukraina, "Україна" is      *)
(* Ukraina, "Пошук по містах" is Poshuk po mistakh.                        *)
(***************************************************************************)
EXTENDS Integers, Sequences, FiniteSets, TLC

\* ------------------------------------------------------------------ bounds
NumUsers == 2
MaxArticles == 1
NumClients == 2
MaxLen == 5

Users == 1..NumUsers
Clients == 1..NumClients

\* ------------------------------------------------------ Python str methods
LowerChars == <<"a","b","c","d","e","f","g","h","i","j","k","l","m",
                "n","o","p","q","r","s","t","u","v","w","x","y","z">>
UpperChars == <<"A","B","C","D","E","F","G","H","I","J","K","L","M",
                "N","O","P","Q","R","S","T","U","V","W","X","Y","Z">>

IsLower(c) == \E i \in DOMAIN LowerChars : LowerChars[i] = c
IsUpper(c) == \E i \in DOMAIN UpperChars : UpperChars[i] = c
IsCased(c) == IsLower(c) \/ IsUpper(c)
IsSpace(c) == c = " "

ToUpper(c) ==
    IF IsLower(c)
    THEN UpperChars[CHOOSE i \in DOMAIN LowerChars : LowerChars[i] = c]
    ELSE c

ToLower(c) ==
    IF IsUpper(c)
    THEN LowerChars[CHOOSE i \in DOMAIN UpperChars : UpperChars[i] = c]
    ELSE c

\* str.lower()
Lower(s) == [i \in 1..Len(s) |-> ToLower(s[i])]

\* str.title(): a cased character is upper-cased when the character before it
\* is not cased (or there is none) and lower-cased otherwise.
Title(s) ==
    [i \in 1..Len(s) |->
        IF i = 1 \/ ~IsCased(s[i-1]) THEN ToUpper(s[i]) ELSE ToLower(s[i])]

RECURSIVE LStrip(_)
LStrip(s) == IF s # <<>> /\ IsSpace(Head(s)) THEN LStrip(Tail(s)) ELSE s

RECURSIVE RStrip(_)
RStrip(s) ==
    IF s # <<>> /\ IsSpace(s[Len(s)]) THEN RStrip(SubSeq(s, 1, Len(s) - 1)) ELSE s

\* str.strip()
Strip(s) == RStrip(LStrip(s))

\* text.split(maxsplit=1)[0]: the first whitespace-delimited token
RECURSIVE TakeToken(_)
TakeToken(s) ==
    IF s = <<>> \/ IsSpace(Head(s)) THEN <<>> ELSE <<Head(s)>> \o TakeToken(Tail(s))

FirstToken(s) == TakeToken(LStrip(s))

\* ------------------------------------------------------------ bot literals
Kyiv == <<"K","y","i","v">>
Lviv == <<"L","v","i","v">>
Ukraina == <<"U","k","r","a","i","n","a">>
VsiaUkraina == <<"V","s","i","a"," ","U","k","r","a","i","n","a">>
PoshukPoMistakh ==
    <<"P","o","s","h","u","k"," ","p","o"," ","m","i","s","t","a","k","h">>
Novyny == <<"N","o","v","y","n","y">>
VybratyOsnovneMisto ==
    <<"V","y","b","r","a","t","y"," ","o","s","n","o","v","n","e"," ",
      "m","i","s","t","o">>
CmdStart == <<"/","s","t","a","r","t">>
CmdChooseCity == <<"/","c","h","o","o","s","e","c","i","t","y">>
CmdNews == <<"/","n","e","w","s">>

\* the "popular_cities" array of popular_cities.json (the bundled list)
PopularCitiesFile == { <<"k","y","i","v">>, Lviv }

\* POPULAR_CITIES = set(city.title() for city in json.load(f)["popular_cities"])
POPULAR_CITIES == { Title(c) : c \in PopularCitiesFile }

AnyCity(city) == TRUE

\* valid_city(city): plain membership, no normalisation of its own
valid_city(city) == city \in POPULAR_CITIES

\* The absent value of a text (Python None); the code only tests texts for
\* truthiness, where None and "" behave alike.
NoText == <<>>

\* what users may type
Texts ==
    { <<" ","k","Y","i","v"," ">>, Lviv, <<"A","t","l","a","n","t","i","s">>,
      CmdStart, CmdChooseCity, CmdNews, Novyny, VybratyOsnovneMisto,
      VsiaUkraina, Ukraina, PoshukPoMistakh }

\* ------------------------------------------------------------------- state
VARIABLES
    fsm,        \* bot: the FSM state of each user (FSMContext), "Idle" when cleared
    pc,         \* bot/store: where each handler task (or store caller) stands
    loc,        \* bot/store: the locals of each task and what it has done so far
    db,         \* bot: the committed rows of table "info"
    accounts,   \* web: the committed rows of table "users"
    wsession,   \* web: the user id in each client's session cookie, 0 when none
    wpc,        \* web: where each client's request stands
    wloc,       \* web: the request in flight and its response
    vin,        \* validator: the string handed to the City Validator
    vout        \* validator: what the validations of vin gave

botvars == <<fsm, pc, loc, db>>
webvars == <<accounts, wsession, wpc, wloc>>
purevars == <<vin, vout>>
vars == <<fsm, pc, loc, db, accounts, wsession, wpc, wloc, vin, vout>>

\* class CityState / class NewsState, and the cleared state
FsmStates == {"Idle", "set_main_city", "news_city", "option"}

\* ------------------------------------------------------- table "info" (bot)
\* Info.id is an autoincrement primary key; rows are never deleted.
NextInfoId(rows) == Cardinality(rows) + 1

NoUniqueConstraint(rows, uid) == FALSE

\* Info.user_id is declared unique=True: an INSERT of a second row for the
\* same user_id is refused by the database.
UniqueViolation(rows, uid) == \E r \in rows : r.user_id = uid

\* select(...).where(Info.user_id == uid).limit(1) ... scalar_one_or_none()
RowsOf(rows, uid) == { r \in rows : r.user_id = uid }
SelectInfo(rows, uid) ==
    IF RowsOf(rows, uid) = {} THEN 0
    ELSE (CHOOSE r \in RowsOf(rows, uid) : \A q \in RowsOf(rows, uid) : r.id <= q.id).id
SelectCity(rows, uid) ==
    IF RowsOf(rows, uid) = {} THEN NoText
    ELSE (CHOOSE r \in RowsOf(rows, uid) : \A q \in RowsOf(rows, uid) : r.id <= q.id).city

\* The unit of work a session holds until commit.
NoPending == [op |-> "none", id |-> 0, user_id |-> 0, city |-> NoText]

\* session.commit(): flush the pending change and commit it.  The commit is
\* refused (ok = FALSE) on a constraint violation or any database failure, and a
\* refused commit leaves the committed rows as they were.
CommitRows(rows, pending, ok) ==
    IF ~ok THEN rows
    ELSE IF pending.op = "update"
    THEN { IF r.id = pending.id THEN [r EXCEPT !.city = pending.city] ELSE r : r \in rows }
    ELSE IF pending.op = "insert"
    THEN rows \cup {[id |-> NextInfoId(rows), user_id |-> pending.user_id,
                     city |-> pending.city]}
    ELSE rows

AlwaysInsert(rows, uid, city) ==
    [op |-> "insert", id |-> 0, user_id |-> uid, city |-> city]

\* create_or_update_city 88-99: the row looked up, then info.city = city on the
\* row found, or session.add(Info(user_id=..., city=...)) when there is none.
\* Assigning the value the row was loaded with is no net change to the unit of
\* work: the commit then flushes no UPDATE.
PendingChange(rows, uid, city) ==
    IF SelectInfo(rows, uid) = 0
    THEN [op |-> "insert", id |-> 0, user_id |-> uid, city |-> city]
    ELSE IF SelectCity(rows, uid) = city
    THEN NoPending
    ELSE [op |-> "update", id |-> SelectInfo(rows, uid), user_id |-> uid, city |-> city]

\* whether the database can accept the pending change at all
CommitAllowed(rows, pending) ==
    ~(pending.op = "insert" /\ UniqueViolation(rows, pending.user_id))

\* create_or_update_city(session, uid, city) run from its lookup to its commit
\* with no other transaction in between and no database failure: the store it
\* leaves.  (A commit the database refuses leaves the store as it was.)
create_or_update_city(rows, uid, city) ==
    CommitRows(rows, PendingChange(rows, uid, city),
               CommitAllowed(rows, PendingChange(rows, uid, city)))

\* --------------------------------------------------------- news API (both)
\* What the upstream may answer to one GET.
Upstream ==
    { [kind |-> "response", status |-> 200, body |-> "articles", n |-> k] :
        k \in 0..MaxArticles }
    \cup { [kind |-> "response", status |-> s, body |-> b, n |-> 0] :
        s \in {200, 404, 500}, b \in {"json_no_articles", "not_json"} }
    \cup { [kind |-> k, status |-> 0, body |-> "none", n |-> 0] :
        k \in {"network_error", "stalled"} }

UpstreamSuccess(r) == r.kind = "response" /\ r.status = 200 /\ r.body = "articles"

\* the "articles" array of a response body
ArticlesOf(r) == [i \in 1..r.n |-> [title |-> i, url |-> i]]

\* async def fetch_news(query, page_size=5) of the bot: the articles on a 200
\* with a JSON body, [] on any other status, and [] on every exception (network
\* error, the 10 s ClientTimeout, a body that is not JSON).
fetch_news(r) ==
    IF r.kind # "response" THEN [outcome |-> "return", value |-> <<>>]
    ELSE IF r.status = 200
    THEN IF r.body = "not_json" THEN [outcome |-> "return", value |-> <<>>]
         ELSE IF r.body = "articles"
         THEN [outcome |-> "return", value |-> ArticlesOf(r)]
         ELSE [outcome |-> "return", value |-> <<>>]
    ELSE [outcome |-> "return", value |-> <<>>]

\* ------------------------------------------------------------- bot replies
main_kb == <<VybratyOsnovneMisto, Novyny>>
Reply(msg, kb, buttons) == [msg |-> msg, kb |-> kb, buttons |-> buttons]

\* --------------------------------------------------------------- bot tasks
InitLoc ==
    [handler |-> "none", uid |-> 0, arg |-> NoText, info |-> 0,
     from |-> "Idle", valid |-> FALSE, pending |-> NoPending, ucity |-> NoText, query |-> NoText,
     articles |-> <<>>, idx |-> 0, out |-> <<>>, queries |-> <<>>,
     stored |-> FALSE, wrote |-> FALSE, rolled |-> FALSE, exc |-> FALSE,
     kind |-> "none", lookup |-> "none"]

\* aiogram's Command(name) filter: the first token of the text is "/" + name
Command(name, text) == FirstToken(text) = name

RouteNewsFirst(text, state) ==
    IF Command(CmdStart, text) THEN "start_handler"
    ELSE IF Command(CmdChooseCity, text) \/ Lower(text) = Lower(VybratyOsnovneMisto)
    THEN "choose_city_start"
    ELSE IF Command(CmdNews, text) \/ Lower(text) = Lower(Novyny) THEN "news_start"
    ELSE IF state = "set_main_city" THEN "set_main_city"
    ELSE IF state = "option" THEN "choose_news_option"
    ELSE IF state = "news_city" THEN "search_news_by_city"
    ELSE "unhandled"

\* The dispatcher offers the message to the handlers in registration order and
\* runs the first whose filters pass (main.py 131, 139-140, 149, 170-171, 200,
\* 248).
Route(text, state) ==
    IF Command(CmdStart, text) THEN "start_handler"
    ELSE IF Command(CmdChooseCity, text) \/ Lower(text) = Lower(VybratyOsnovneMisto)
    THEN "choose_city_start"
    ELSE IF state = "set_main_city" THEN "set_main_city"
    ELSE IF Command(CmdNews, text) \/ Lower(text) = Lower(Novyny) THEN "news_start"
    ELSE IF state = "option" THEN "choose_news_option"
    ELSE IF state = "news_city" THEN "search_news_by_city"
    ELSE "unhandled"

\* Which of the command and button filters (131, 139-140, 170-171) a text
\* passes, in the order of their registration.
TextKind(text) ==
    IF Command(CmdStart, text) THEN "start"
    ELSE IF Command(CmdChooseCity, text) \/ Lower(text) = Lower(VybratyOsnovneMisto)
    THEN "choosecity"
    ELSE IF Command(CmdNews, text) \/ Lower(text) = Lower(Novyny) THEN "news"
    ELSE "other"

StripOnly(text) == Strip(text)

\* city = message.text.strip().title() (151, 250)
Normalize(text) == Title(Strip(text))

\* The routing and the normalisation of every text users may type, computed
\* once (the operators above are pure).
Routed == [t \in Texts |-> [s \in FsmStates |-> Route(t, s)]]
Normalized == [t \in Texts |-> Normalize(t)]
Stripped == [t \in Texts |-> Strip(t)]
ValidText == [t \in Texts |-> valid_city(Normalize(t))]
Kind == [t \in Texts |-> TextKind(t)]

\* A handler's entry up to its first await.  loc.from (the FSM state the message
\* met) and loc.valid (whether the normalised text is a known city) record the
\* input for the properties, as does loc.kind (which command or button the text
\* is, if any); the city is kept in loc.arg when it is used again.
Entry(u, h, text) ==
    LET base == [InitLoc EXCEPT !.handler = h, !.uid = u, !.from = fsm[u],
                                !.valid = ValidText[text], !.kind = Kind[text]]
        city == Normalized[text]
    IN
    CASE h = "start_handler" ->
            [pc |-> "st_answer", fsm |-> fsm[u], loc |-> base]
      [] h = "choose_city_start" ->
            [pc |-> "cc_answer", fsm |-> "set_main_city", loc |-> base]
      [] h = "set_main_city" ->
            IF ~ValidText[text]
            THEN [pc |-> "reprompt", fsm |-> fsm[u], loc |-> base]
            ELSE [pc |-> "cuc_lookup", fsm |-> fsm[u],
                  loc |-> [base EXCEPT !.arg = city]]
      [] h = "news_start" ->
            [pc |-> "ns_lookup", fsm |-> "option", loc |-> base]
      [] h = "choose_news_option" ->
            [pc |-> "cn_lookup", fsm |-> fsm[u],
             loc |-> [base EXCEPT !.arg = Stripped[text]]]
      [] h = "search_news_by_city" ->
            IF ~ValidText[text]
            THEN [pc |-> "reprompt", fsm |-> fsm[u], loc |-> base]
            ELSE [pc |-> "fetch", fsm |-> fsm[u],
                  loc |-> [base EXCEPT !.arg = city, !.query = city]]
      [] OTHER ->
            [pc |-> "done", fsm |-> fsm[u], loc |-> base]

\* User u sends a text; a user sends one message at a time, so the next one is
\* dispatched when the handler of the previous one has finished.
Dispatch(u, text) ==
    /\ pc[u] = "ready"
    /\ LET e == Entry(u, Routed[text][fsm[u]], text) IN
        /\ pc' = [pc EXCEPT ![u] = e.pc]
        /\ fsm' = [fsm EXCEPT ![u] = e.fsm]
        /\ loc' = [loc EXCEPT ![u] = e.loc]
    /\ UNCHANGED <<db, webvars, purevars>>

\* await message.answer(...): the reply is handed to the platform, which
\* delivers it (ok) or raises.
Answer(u, r) == loc' = [loc EXCEPT ![u].out = Append(@, r)]

StartAnswerClearsState(u) ==
    /\ pc[u] = "st_answer"
    /\ Answer(u, Reply("welcome", "main_kb", main_kb))
    /\ fsm' = [fsm EXCEPT ![u] = "Idle"]
    /\ \E ok \in BOOLEAN : pc' = [pc EXCEPT ![u] = IF ok THEN "done" ELSE "raised"]
    /\ UNCHANGED <<db, webvars, purevars>>

\* start_handler (main.py 131-136)
StartAnswer(u) ==
    /\ pc[u] = "st_answer"
    /\ Answer(u, Reply("welcome", "main_kb", main_kb))
    /\ \E ok \in BOOLEAN : pc' = [pc EXCEPT ![u] = IF ok THEN "done" ELSE "raised"]
    /\ UNCHANGED <<fsm, db, webvars, purevars>>

\* choose_city_start (main.py 139-145), after set_state
ChooseCityAnswer(u) ==
    /\ pc[u] = "cc_answer"
    /\ Answer(u, Reply("ask_main_city", "remove", <<>>))
    /\ \E ok \in BOOLEAN : pc' = [pc EXCEPT ![u] = IF ok THEN "done" ELSE "raised"]
    /\ UNCHANGED <<fsm, db, webvars, purevars>>

RepromptAndClear(u) ==
    /\ pc[u] = "reprompt"
    /\ Answer(u, Reply("no_such_city", "none", <<>>))
    /\ fsm' = [fsm EXCEPT ![u] = "Idle"]
    /\ \E ok \in BOOLEAN : pc' = [pc EXCEPT ![u] = IF ok THEN "done" ELSE "raised"]
    /\ UNCHANGED <<db, webvars, purevars>>

\* set_main_city 152-154 and search_news_by_city 251-253: not a known city
Reprompt(u) ==
    /\ pc[u] = "reprompt"
    /\ Answer(u, Reply("no_such_city", "none", <<>>))
    /\ \E ok \in BOOLEAN : pc' = [pc EXCEPT ![u] = IF ok THEN "done" ELSE "raised"]
    /\ UNCHANGED <<fsm, db, webvars, purevars>>

\* ------------------------------------------- create_or_update_city (86-105)
\* Where the call returns to: set_main_city goes on to its confirmation, a
\* caller of SpecStore is done.
AfterStore(p) == IF loc[p].handler = "set_main_city" THEN "sm_confirm" ELSE "done"
AfterStoreRaise(p) == IF loc[p].handler = "set_main_city" THEN "sm_error" ELSE "raised"

\* 88-98: the SELECT; then either info.city = city on the row found or
\* session.add(Info(...)), both pending until the commit.  A failing SELECT goes
\* to the except clause.
StoreLookup(p) ==
    /\ pc[p] = "cuc_lookup"
    /\ \E ok \in BOOLEAN :
        IF ok
        THEN
            /\ loc' = [loc EXCEPT
                  ![p].info = SelectInfo(db, loc[p].uid),
                  ![p].pending = PendingChange(db, loc[p].uid, loc[p].arg)]
            /\ pc' = [pc EXCEPT ![p] = "cuc_commit"]
        ELSE
            /\ loc' = loc
            /\ pc' = [pc EXCEPT ![p] = "cuc_rollback"]
    /\ UNCHANGED <<fsm, db, webvars, purevars>>

\* 95 / 100: await session.commit()
StoreCommit(p) ==
    /\ pc[p] = "cuc_commit"
    /\ \E ok \in {b \in BOOLEAN : b => CommitAllowed(db, loc[p].pending)} :
        /\ db' = CommitRows(db, loc[p].pending, ok)
        /\ loc' = [loc EXCEPT
              ![p].stored = ok,
              ![p].wrote = (db' # db),
              ![p].pending = IF ok THEN NoPending ELSE @]
        /\ pc' = [pc EXCEPT ![p] = IF ok THEN AfterStore(p) ELSE "cuc_rollback"]
    /\ UNCHANGED <<fsm, webvars, purevars>>

StoreRaiseWithoutRollback(p) ==
    /\ pc[p] = "cuc_rollback"
    /\ pc' = [pc EXCEPT ![p] = AfterStoreRaise(p)]
    /\ UNCHANGED <<loc, fsm, db, webvars, purevars>>

\* 102-105: await session.rollback(), then raise
StoreRollback(p) ==
    /\ pc[p] = "cuc_rollback"
    /\ loc' = [loc EXCEPT ![p].pending = NoPending, ![p].rolled = TRUE]
    /\ pc' = [pc EXCEPT ![p] = AfterStoreRaise(p)]
    /\ UNCHANGED <<fsm, db, webvars, purevars>>

\* ------------------------------------------------- set_main_city (156-167)
\* 159-161: the confirmation; a failing send goes to the except clause
SetCityConfirm(u) ==
    /\ pc[u] = "sm_confirm"
    /\ Answer(u, Reply("city_set", "main_kb", main_kb))
    /\ \E ok \in BOOLEAN : pc' = [pc EXCEPT ![u] = IF ok THEN "sm_clear" ELSE "sm_error"]
    /\ UNCHANGED <<fsm, db, webvars, purevars>>

\* 162-165: the error reply; when this send fails too the exception leaves the
\* handler, after the finally clause
SetCityError(u) ==
    /\ pc[u] = "sm_error"
    /\ \E ok \in BOOLEAN :
        loc' = [loc EXCEPT ![u].out = Append(@, Reply("save_failed", "none", <<>>)),
                           ![u].exc = ~ok]
    /\ pc' = [pc EXCEPT ![u] = "sm_clear"]
    /\ UNCHANGED <<fsm, db, webvars, purevars>>

SetCityClearOnSuccessOnly(u) ==
    /\ pc[u] = "sm_clear"
    /\ fsm' = [fsm EXCEPT ![u] = IF loc[u].out[Len(loc[u].out)].msg = "city_set"
                                   THEN "Idle" ELSE @]
    /\ pc' = [pc EXCEPT ![u] = IF loc[u].exc THEN "raised" ELSE "done"]
    /\ UNCHANGED <<loc, db, webvars, purevars>>

\* 166-167: finally: await state.clear()
SetCityClear(u) ==
    /\ pc[u] = "sm_clear"
    /\ fsm' = [fsm EXCEPT ![u] = "Idle"]
    /\ pc' = [pc EXCEPT ![u] = IF loc[u].exc THEN "raised" ELSE "done"]
    /\ UNCHANGED <<loc, db, webvars, purevars>>

\* ---------------------------------------------------- news_start (170-197)
\* 175-183: the lookup of the user's city; a failure is printed and leaves
\* user_city None
NewsLookup(u) ==
    /\ pc[u] = "ns_lookup"
    /\ \E ok \in BOOLEAN :
        loc' = [loc EXCEPT ![u].ucity = IF ok THEN SelectCity(db, u) ELSE NoText,
                           ![u].lookup = IF ok THEN "ok" ELSE "failed"]
    /\ pc' = [pc EXCEPT ![u] = "ns_answer"]
    /\ UNCHANGED <<fsm, db, webvars, purevars>>

NoSavedCityButton(user_city) == <<VsiaUkraina, PoshukPoMistakh>>

\* 185-189: the buttons offered
NewsButtons(user_city) ==
    (IF user_city # NoText THEN <<user_city>> ELSE <<>>)
        \o <<VsiaUkraina, PoshukPoMistakh>>

\* 191-197
NewsAnswer(u) ==
    /\ pc[u] = "ns_answer"
    /\ Answer(u, Reply("choose_option", "options", NewsButtons(loc[u].ucity)))
    /\ \E ok \in BOOLEAN : pc' = [pc EXCEPT ![u] = IF ok THEN "done" ELSE "raised"]
    /\ UNCHANGED <<fsm, db, webvars, purevars>>

OptionBranchPassesInput(user_input, user_city) ==
    IF user_input = PoshukPoMistakh THEN [pc |-> "cn_search", query |-> NoText]
    ELSE IF user_input \in {Ukraina, VsiaUkraina} THEN [pc |-> "fetch", query |-> Ukraina]
    ELSE [pc |-> "fetch", query |-> user_input]

\* -------------------------------------------- choose_news_option (200-245)
\* 214-230: which branch the input takes, given the city looked up
OptionBranch(user_input, user_city) ==
    IF user_input = PoshukPoMistakh THEN [pc |-> "cn_search", query |-> NoText]
    ELSE IF user_input \in {Ukraina, VsiaUkraina} THEN [pc |-> "fetch", query |-> Ukraina]
    ELSE IF user_city # NoText /\ user_input = user_city
    THEN [pc |-> "fetch", query |-> user_city]
    ELSE [pc |-> "cn_unknown", query |-> NoText]

\* 204-212: the lookup of the user's city, as in news_start
OptionLookup(u) ==
    /\ pc[u] = "cn_lookup"
    /\ \E ok \in BOOLEAN :
        LET city == IF ok THEN SelectCity(db, u) ELSE NoText
            b == OptionBranch(loc[u].arg, city)
        IN  /\ loc' = [loc EXCEPT ![u].query = b.query,
                                  ![u].lookup = IF ok THEN "ok" ELSE "failed"]
            /\ pc' = [pc EXCEPT ![u] = b.pc]
    /\ UNCHANGED <<fsm, db, webvars, purevars>>

\* 214-219: "search by city": set_state(CityState.news_city), then the prompt
OptionSearch(u) ==
    /\ pc[u] = "cn_search"
    /\ fsm' = [fsm EXCEPT ![u] = "news_city"]
    /\ Answer(u, Reply("ask_news_city", "remove", <<>>))
    /\ \E ok \in BOOLEAN : pc' = [pc EXCEPT ![u] = IF ok THEN "done" ELSE "raised"]
    /\ UNCHANGED <<db, webvars, purevars>>

\* 225-230: the unknown option: the reply, and state.clear() after it
OptionUnknown(u) ==
    /\ pc[u] = "cn_unknown"
    /\ Answer(u, Reply("unknown_option", "none", <<>>))
    /\ \E ok \in BOOLEAN :
        /\ fsm' = [fsm EXCEPT ![u] = IF ok THEN "Idle" ELSE @]
        /\ pc' = [pc EXCEPT ![u] = IF ok THEN "done" ELSE "raised"]
    /\ UNCHANGED <<db, webvars, purevars>>

\* ------- the tail of choose_news_option (232-245) and search_news_by_city
\* ------- (255-268), the same code in both
\* 232 / 255: articles = await fetch_news(query)
Fetch(u) ==
    /\ pc[u] = "fetch"
    /\ \E r \in Upstream :
        LET got == fetch_news(r) IN
        /\ loc' = [loc EXCEPT ![u].articles = got.value,
                              ![u].queries = Append(@, loc[u].query)]
        /\ pc' = [pc EXCEPT ![u] =
                    IF got.outcome # "return" THEN "raised"
                    ELSE IF got.value = <<>> THEN "nonews" ELSE "articles"]
    /\ UNCHANGED <<fsm, db, webvars, purevars>>

\* 233-234 / 256-257: nothing found
NoNews(u) ==
    /\ pc[u] = "nonews"
    /\ Answer(u, Reply("no_news", "none", <<>>))
    /\ \E ok \in BOOLEAN : pc' = [pc EXCEPT ![u] = IF ok THEN "finish" ELSE "raised"]
    /\ UNCHANGED <<fsm, db, webvars, purevars>>

\* 236-242 / 259-265: one article; a failing send is caught and printed
SendArticle(u) ==
    /\ pc[u] = "articles"
    /\ \E ok \in BOOLEAN :
        loc' = [loc EXCEPT ![u].out = Append(@, Reply("article", "none", <<>>)),
                           ![u].idx = @ + 1]
    /\ pc' = [pc EXCEPT ![u] =
                IF loc[u].idx + 1 >= Len(loc[u].articles) THEN "finish" ELSE "articles"]
    /\ UNCHANGED <<fsm, db, webvars, purevars>>

\* 244-245 / 267-268: state.clear(), then the closing reply
FinishNews(u) ==
    /\ pc[u] = "finish"
    /\ fsm' = [fsm EXCEPT ![u] = "Idle"]
    /\ Answer(u, Reply("finished", "main_kb", main_kb))
    /\ \E ok \in BOOLEAN : pc' = [pc EXCEPT ![u] = IF ok THEN "done" ELSE "raised"]
    /\ UNCHANGED <<db, webvars, purevars>>

\* The handler has returned (or its exception has reached the dispatcher, which
\* logs it and goes on): the task is over.
TaskEnd(p) ==
    /\ pc[p] \in {"done", "raised"}
    /\ pc' = [pc EXCEPT ![p] = "ready"]
    /\ loc' = [loc EXCEPT ![p] = InitLoc]
    /\ UNCHANGED <<fsm, db, webvars, purevars>>

\* SpecStore: any caller calls create_or_update_city(session, uid, city)
Call(p, uid, city) ==
    /\ pc[p] = "ready"
    /\ pc' = [pc EXCEPT ![p] = "cuc_lookup"]
    /\ loc' = [loc EXCEPT ![p] = [InitLoc EXCEPT !.handler = "direct", !.uid = uid,
                                                !.arg = city]]
    /\ UNCHANGED <<fsm, db, webvars, purevars>>

\* ================================================== newsite/app.py (web)
\* request.form.get(...) gives None for a missing field
FormNone == "<None>"
\* Python truthiness of a form value: None and "" are falsy
Truthy(v) == v # FormNone /\ v # ""

FormNames == {FormNone, "", "Ann"}
FormEmails == {"", "a@x", "b@x"}
FormPasswords == {"", "p1", "p2"}
Salts == {"s1", "s2"}

\* werkzeug generate_password_hash / check_password_hash: a salted digest; the
\* digest of (salt, password) stands for itself (no collisions).
Digest(salt, password) == <<salt, password>>
generate_password_hash(password, salt) ==
    [salt |-> salt, digest |-> Digest(salt, password)]
check_password_hash(pwhash, password) == pwhash.digest = Digest(pwhash.salt, password)

\* User.query.filter_by(email=email).first(); 0 stands for None
UsersByEmail(rows, email) == { a \in rows : a.email = email }
FirstByEmail(rows, email) ==
    CHOOSE a \in UsersByEmail(rows, email) :
        \A b \in UsersByEmail(rows, email) : a.id <= b.id

\* existing_user = User.query.filter_by(email=email).first() is not None
EmailTaken(rows, email) == UsersByEmail(rows, email) # {}

NoUniqueEmail(rows, email) == FALSE

\* User.email is declared unique=True: an INSERT of a second row with the same
\* email is refused by the database.
UniqueEmailViolation(rows, email) == \E a \in rows : a.email = email

\* load_user / current_user.is_authenticated: the session names a stored user
Authenticated(c) == wsession[c] # 0 /\ \E a \in accounts : a.id = wsession[c]

NoRequest ==
    [req |-> "none", email |-> FormNone, password |-> FormNone, blank |-> FALSE,
     existed |-> FALSE, authed |-> FALSE, before |-> 0, new_user |-> <<>>,
     upstream |-> <<>>, resp |-> <<>>]

Redirect(to, flash) == <<[status |-> 302, to |-> to, flash |-> flash, articles |-> <<>>]>>
Render(page, articles) ==
    <<[status |-> 200, to |-> page, flash |-> "none", articles |-> articles]>>
ServerError == <<[status |-> 500, to |-> "none", flash |-> "none", articles |-> <<>>]>>

\* def fetch_news() of the site (45-55): no timeout, no status test, no except
\* clause: requests.get raises on a network error and waits on an upstream that
\* never answers; response.json() raises on a body that is not JSON.
fetch_news_web(r) ==
    IF r.kind = "network_error" THEN [outcome |-> "raise", value |-> <<>>]
    ELSE IF r.kind = "stalled" THEN [outcome |-> "hang", value |-> <<>>]
    ELSE IF r.body = "not_json" THEN [outcome |-> "raise", value |-> <<>>]
    ELSE IF r.body = "articles" THEN [outcome |-> "return", value |-> ArticlesOf(r)]
    ELSE [outcome |-> "return", value |-> <<>>]

\* home (63-66)
Home(c) ==
    /\ wpc[c] = "ready"
    /\ \E r \in Upstream :
        LET got == fetch_news_web(r) IN
        /\ wloc' = [wloc EXCEPT ![c] =
              [NoRequest EXCEPT !.req = "home", !.authed = Authenticated(c),
                                !.before = wsession[c], !.upstream = <<r>>,
                                !.resp = IF got.outcome = "return"
                                         THEN Render("index", got.value)
                                         ELSE IF got.outcome = "raise" THEN ServerError
                                         ELSE <<>>]]
        /\ wpc' = [wpc EXCEPT ![c] = IF got.outcome = "hang" THEN "hung" ELSE "responded"]
    /\ UNCHANGED <<accounts, wsession, botvars, purevars>>

\* GET /register (96) and GET /login (117): the form is rendered
FormGet(c, page) ==
    /\ wpc[c] = "ready"
    /\ wloc' = [wloc EXCEPT ![c] =
          [NoRequest EXCEPT !.req = page, !.authed = Authenticated(c),
                            !.before = wsession[c], !.resp = Render(page, <<>>)]]
    /\ wpc' = [wpc EXCEPT ![c] = "responded"]
    /\ UNCHANGED <<accounts, wsession, botvars, purevars>>

\* POST /register (71-92): the blank test, the lookup by email, the new row
\* added to the session
RegisterPost(c, first_name, last_name, email, password) ==
    /\ wpc[c] = "ready"
    /\ LET blank == ~(Truthy(first_name) /\ Truthy(last_name) /\ Truthy(email)
                      /\ Truthy(password))
           existed == ~blank /\ EmailTaken(accounts, email)
           req == [NoRequest EXCEPT !.req = "register_post", !.email = email,
                                    !.blank = blank, !.existed = existed,
                                    !.authed = Authenticated(c),
                                    !.before = wsession[c]]
       IN
       IF blank
       THEN /\ wloc' = [wloc EXCEPT ![c] =
                  [req EXCEPT !.resp = Redirect("register", "fill_all_fields")]]
            /\ wpc' = [wpc EXCEPT ![c] = "responded"]
       ELSE IF existed
       THEN /\ wloc' = [wloc EXCEPT ![c] =
                  [req EXCEPT !.resp = Redirect("register", "email_registered")]]
            /\ wpc' = [wpc EXCEPT ![c] = "responded"]
       ELSE \E salt \in Salts :
            /\ wloc' = [wloc EXCEPT ![c] =
                  [req EXCEPT !.new_user =
                      <<[first_name |-> first_name, last_name |-> last_name,
                         email |-> email,
                         password |-> generate_password_hash(password, salt)]>>]]
            /\ wpc' = [wpc EXCEPT ![c] = "reg_commit"]
    /\ UNCHANGED <<accounts, wsession, botvars, purevars>>

\* db.session.commit() of the new row (93): refused by the database when the
\* email has been taken meanwhile; the exception is not caught (a 500)
InsertUser(rows, u) ==
    rows \cup {[id |-> Cardinality(rows) + 1, first_name |-> u.first_name,
                last_name |-> u.last_name, email |-> u.email, password |-> u.password]}

\* 93-95
RegisterCommit(c) ==
    /\ wpc[c] = "reg_commit"
    /\ LET u == wloc[c].new_user[1] IN
       IF UniqueEmailViolation(accounts, u.email)
       THEN /\ accounts' = accounts
            /\ wloc' = [wloc EXCEPT ![c].resp = ServerError]
       ELSE /\ accounts' = InsertUser(accounts, u)
            /\ wloc' = [wloc EXCEPT ![c].resp = Redirect("login", "registered")]
    /\ wpc' = [wpc EXCEPT ![c] = "responded"]
    /\ UNCHANGED <<wsession, botvars, purevars>>

LoginOutcomeTellsUnknownEmail(rows, email, password) ==
    IF ~Truthy(email) \/ ~Truthy(password)
    THEN [flash |-> "enter_email_password", to |-> "login", login |-> 0]
    ELSE IF ~EmailTaken(rows, email)
    THEN [flash |-> "unknown_email", to |-> "login", login |-> 0]
    ELSE IF check_password_hash(FirstByEmail(rows, email).password, password)
    THEN [flash |-> "welcome", to |-> "profile", login |-> FirstByEmail(rows, email).id]
    ELSE [flash |-> "invalid_credentials", to |-> "login", login |-> 0]

\* POST /login (101-116): what the handler answers and whom it logs in (0: nobody)
LoginOutcome(rows, email, password) ==
    IF ~Truthy(email) \/ ~Truthy(password)
    THEN [flash |-> "enter_email_password", to |-> "login", login |-> 0]
    ELSE IF /\ EmailTaken(rows, email)
            /\ check_password_hash(FirstByEmail(rows, email).password, password)
    THEN [flash |-> "welcome", to |-> "profile", login |-> FirstByEmail(rows, email).id]
    ELSE [flash |-> "invalid_credentials", to |-> "login", login |-> 0]

LoginPost(c, email, password) ==
    /\ wpc[c] = "ready"
    /\ LET o == LoginOutcome(accounts, email, password) IN
        /\ wsession' = [wsession EXCEPT ![c] = IF o.login # 0 THEN o.login ELSE @]
        /\ wloc' = [wloc EXCEPT ![c] =
              [NoRequest EXCEPT !.req = "login_post", !.email = email,
                                !.password = password,
                                !.blank = (~Truthy(email) \/ ~Truthy(password)),
                                !.existed = EmailTaken(accounts, email),
                                !.authed = Authenticated(c), !.before = wsession[c],
                                !.resp = Redirect(o.to, o.flash)]]
    /\ wpc' = [wpc EXCEPT ![c] = "responded"]
    /\ UNCHANGED <<accounts, botvars, purevars>>

NoLoginRequired(c) == TRUE

\* @login_required with login_manager.login_view = "login" (27-29): a request
\* without an authenticated user is redirected to the login page
LoginRequired(c) == Authenticated(c)
Unauthorized == Redirect("login", "please_log_in")

\* logout (120-125)
Logout(c) ==
    /\ wpc[c] = "ready"
    /\ wsession' = [wsession EXCEPT ![c] = IF LoginRequired(c) THEN 0 ELSE @]
    /\ wloc' = [wloc EXCEPT ![c] =
          [NoRequest EXCEPT !.req = "logout", !.authed = Authenticated(c),
                            !.before = wsession[c],
                            !.resp = IF LoginRequired(c)
                                     THEN Redirect("home", "logged_out")
                                     ELSE Unauthorized]]
    /\ wpc' = [wpc EXCEPT ![c] = "responded"]
    /\ UNCHANGED <<accounts, botvars, purevars>>

\* profile (128-132)
Profile(c) ==
    /\ wpc[c] = "ready"
    /\ wloc' = [wloc EXCEPT ![c] =
          [NoRequest EXCEPT !.req = "profile", !.authed = Authenticated(c),
                            !.before = wsession[c],
                            !.resp = IF LoginRequired(c)
                                     THEN Render("profile", <<>>)
                                     ELSE Unauthorized]]
    /\ wpc' = [wpc EXCEPT ![c] = "responded"]
    /\ UNCHANGED <<accounts, wsession, botvars, purevars>>

\* the response has been sent: the client may make its next request
WebEnd(c) ==
    /\ wpc[c] = "responded"
    /\ wpc' = [wpc EXCEPT ![c] = "ready"]
    /\ wloc' = [wloc EXCEPT ![c] = NoRequest]
    /\ UNCHANGED <<accounts, wsession, botvars, purevars>>

\* ======================================== the City Validator (SpecValid)
\* The strings handed to the validator: every string of at most MaxLen
\* characters over an alphabet that spells a known city in either case, with
\* spaces.
Alphabet == {"l", "L", "v", "V", "i", " "}

RECURSIVE StringsOfLen(_)
StringsOfLen(n) ==
    IF n = 0 THEN { <<>> }
    ELSE { <<c>> \o s : c \in Alphabet, s \in StringsOfLen(n - 1) }

Inputs == UNION { StringsOfLen(n) : n \in 0..MaxLen }

NotValidated == [done |-> FALSE, raw |-> FALSE, normalized |-> FALSE,
                 twice |-> FALSE, lowered |-> FALSE, padded |-> FALSE]

\* valid_city applied to the string as it is (81-83), and the validation the
\* handlers make (151-152, 250-251: valid_city(text.strip().title())) applied to
\* the string, to its normal form, to its lower-cased form and to the string
\* with spaces around it.
Validate ==
    /\ ~vout.done
    /\ vout' = [done |-> TRUE,
                raw |-> valid_city(vin),
                normalized |-> valid_city(Normalize(vin)),
                twice |-> valid_city(Normalize(Normalize(vin))),
                lowered |-> valid_city(Normalize(Lower(vin))),
                padded |-> valid_city(Normalize(<<" ">> \o vin \o <<" ">>))]
    /\ UNCHANGED <<vin, botvars, webvars>>

\* ---------------------------------------------------------- specifications
Init ==
    /\ fsm = [u \in Users |-> "Idle"]
    /\ pc = [u \in Users |-> "ready"]
    /\ loc = [u \in Users |-> InitLoc]
    /\ db = {}
    /\ accounts = {}
    /\ wsession = [c \in Clients |-> 0]
    /\ wpc = [c \in Clients |-> "ready"]
    /\ wloc = [c \in Clients |-> NoRequest]
    /\ vin = NoText
    /\ vout = NotValidated

Next ==
    \E u \in Users :
        \/ \E text \in Texts : Dispatch(u, text)
        \/ StartAnswer(u)
        \/ ChooseCityAnswer(u)
        \/ Reprompt(u)
        \/ StoreLookup(u)
        \/ StoreCommit(u)
        \/ StoreRollback(u)
        \/ SetCityConfirm(u)
        \/ SetCityError(u)
        \/ SetCityClear(u)
        \/ NewsLookup(u)
        \/ NewsAnswer(u)
        \/ OptionLookup(u)
        \/ OptionSearch(u)
        \/ OptionUnknown(u)
        \/ Fetch(u)
        \/ NoNews(u)
        \/ SendArticle(u)
        \/ FinishNews(u)
        \/ TaskEnd(u)

Spec == Init /\ [][Next]_vars

NextStore ==
    \E p \in Users :
        \/ \E uid \in Users, city \in POPULAR_CITIES : Call(p, uid, city)
        \/ StoreLookup(p)
        \/ StoreCommit(p)
        \/ StoreRollback(p)
        \/ TaskEnd(p)

SpecStore == Init /\ [][NextStore]_vars

NextWeb ==
    \E c \in Clients :
        \/ Home(c)
        \/ \E page \in {"register", "login"} : FormGet(c, page)
        \/ \E fn \in FormNames, ln \in FormNames, e \in FormEmails, pw \in FormPasswords :
              RegisterPost(c, fn, ln, e, pw)
        \/ RegisterCommit(c)
        \/ \E e \in FormEmails, pw \in FormPasswords : LoginPost(c, e, pw)
        \/ Logout(c)
        \/ Profile(c)
        \/ WebEnd(c)

SpecWeb == Init /\ [][NextWeb]_vars

InitValid ==
    /\ fsm = [u \in Users |-> "Idle"]
    /\ pc = [u \in Users |-> "ready"]
    /\ loc = [u \in Users |-> InitLoc]
    /\ db = {}
    /\ accounts = {}
    /\ wsession = [c \in Clients |-> 0]
    /\ wpc = [c \in Clients |-> "ready"]
    /\ wloc = [c \in Clients |-> NoRequest]
    /\ vin \in Inputs
    /\ vout = NotValidated

NextValid == Validate

SpecValid == InitValid /\ [][NextValid]_vars

\* ================================================================ claims
\* -------------------------------------------------------------------- C1
\* C1: after any interleaving of create_or_update_city calls (two concurrent
\* calls for one user_id that both read "no record" included) the store holds
\* at most one preference record per user_id.
C1_OneRecordPerUser ==
    \A uid \in Users : Cardinality(RowsOf(db, uid)) <= 1

\* Two calls for the same user both found no record and both went for an
\* INSERT; one has committed, the other was refused.
C1_Witness ==
    \E p \in Users, q \in Users :
        /\ p # q
        /\ loc[p].uid = loc[q].uid
        /\ pc[p] = "done" /\ loc[p].stored /\ loc[p].info = 0
        /\ pc[q] = "raised" /\ loc[q].info = 0
        /\ Cardinality(RowsOf(db, loc[p].uid)) = 1

\* -------------------------------------------------------------------- C4
\* C4: a create_or_update_city call that fails (at the lookup, the update commit
\* or the insert commit) has rolled its transaction back before the exception
\* reaches the caller, and has changed nothing in the committed store.
C4_FailureRollsBack ==
    \A p \in Users :
        (loc[p].handler = "direct" /\ pc[p] = "raised") =>
            /\ loc[p].rolled
            /\ loc[p].pending = NoPending
            /\ ~loc[p].stored
            /\ ~loc[p].wrote

\* An update commit failed: the row had been found, the call has raised, and
\* the row still holds another city than the one the call was to write.
C4_Witness ==
    \E p \in Users :
        /\ loc[p].handler = "direct" /\ pc[p] = "raised"
        /\ loc[p].info # 0
        /\ \E r \in db : r.id = loc[p].info /\ r.city # loc[p].arg

\* -------------------------------------------------------------------- C2
\* The handler run of user u has ended (returned, or raised to the dispatcher).
Ended(u) == pc[u] \in {"done", "raised"}

\* The terminal transitions of the conversation: set_main_city after a valid
\* city, choose_news_option after any option but "search by city",
\* search_news_by_city after a valid city.
TerminalRun(u) ==
    \/ loc[u].handler = "set_main_city" /\ loc[u].valid
    \/ loc[u].handler = "choose_news_option" /\ loc[u].arg # PoshukPoMistakh
    \/ loc[u].handler = "search_news_by_city" /\ loc[u].valid

\* C2: every terminal transition leaves the user's conversation state cleared
\* (Idle), also when a database step, the news fetch or the sending of a reply
\* fails.
C2_TerminalClearsState ==
    \A u \in Users : (Ended(u) /\ TerminalRun(u)) => fsm[u] = "Idle"

\* -------------------------------------------------------------------- C5
\* C5: when a user in AwaitingMainCity sends a text whose trimmed, title-cased
\* form is a known city and the store succeeds, then at the end of the handler
\* the user's one preference record holds that normalised city, the
\* confirmation was the reply sent, and the conversation state is Idle.
C5_ValidCityStored ==
    \A u \in Users :
        (Ended(u) /\ loc[u].handler = "set_main_city" /\ loc[u].valid /\ loc[u].stored) =>
            /\ loc[u].from = "set_main_city"
            /\ loc[u].arg \in POPULAR_CITIES
            /\ Cardinality(RowsOf(db, u)) = 1
            /\ SelectCity(db, u) = loc[u].arg
            /\ loc[u].out # <<>>
            /\ loc[u].out[1] = Reply("city_set", "main_kb", main_kb)
            /\ fsm[u] = "Idle"

\* The user typed " kYiv " (the only text that normalises to Kyiv) over a stored
\* Lviv: the record now holds Kyiv, and the confirmation was delivered.
C5_Witness ==
    \E u \in Users :
        /\ pc[u] = "done" /\ loc[u].handler = "set_main_city" /\ loc[u].stored
        /\ loc[u].arg = Kyiv /\ loc[u].info # 0
        /\ SelectCity(db, u) = Kyiv
        /\ Len(loc[u].out) = 1

\* -------------------------------------------------------------------- C6
\* What C6 promises of a run: the re-prompt is the reply, the conversation state
\* is the one the message met, the run has written nothing to the store and has
\* fetched no news.
Reprompted(u) ==
    /\ loc[u].out = <<Reply("no_such_city", "none", <<>>)>>
    /\ fsm[u] = loc[u].from
    /\ ~loc[u].wrote /\ ~loc[u].stored
    /\ loc[u].queries = <<>>

\* C6 as stated: a user in AwaitingMainCity or AwaitingSearchCity who sends a
\* text whose normalised form is not a known city is re-prompted, stays in the
\* same state, and neither the store nor the news API is touched.
C6_Original ==
    \A u \in Users :
        (Ended(u) /\ loc[u].from \in {"set_main_city", "news_city"} /\ ~loc[u].valid)
            => Reprompted(u)

\* C6 as amended: the same, for the texts the dispatcher hands to the state's
\* own handler (set_main_city, search_news_by_city); /start, the choose-city
\* command or button and, in AwaitingSearchCity, the news command or button go
\* to their own handlers instead.
C6_InvalidCityReprompts ==
    \A u \in Users :
        (/\ Ended(u)
         /\ loc[u].handler \in {"set_main_city", "search_news_by_city"}
         /\ ~loc[u].valid)
            => /\ Reprompted(u)
               /\ loc[u].from = IF loc[u].handler = "set_main_city"
                                THEN "set_main_city" ELSE "news_city"

\* A user in AwaitingSearchCity has been re-prompted while the store already
\* holds a record of theirs.
C6_Witness ==
    \E u \in Users :
        /\ pc[u] = "done" /\ loc[u].handler = "search_news_by_city" /\ ~loc[u].valid
        /\ fsm[u] = "news_city"
        /\ RowsOf(db, u) # {}

\* -------------------------------------------------------------------- C7
\* C7: from AwaitingNewsOption there are exactly three outcomes: "search by
\* city" moves to AwaitingSearchCity without a fetch; the whole-country option
\* or the user's own stored city causes one fetch and ends in Idle; any other
\* input gets the error reply, causes no fetch and ends in Idle.
C7_ThreeOutcomes ==
    \A u \in Users :
        (Ended(u) /\ loc[u].handler = "choose_news_option") =>
            LET input == loc[u].arg
                saved == SelectCity(db, u)
            IN
            IF input = PoshukPoMistakh
            THEN fsm[u] = "news_city" /\ loc[u].queries = <<>>
            ELSE IF input \in {Ukraina, VsiaUkraina} \/ (saved # NoText /\ input = saved)
            THEN /\ loc[u].queries = <<IF input = saved THEN saved ELSE Ukraina>>
                 /\ fsm[u] = "Idle"
            ELSE /\ \E i \in DOMAIN loc[u].out : loc[u].out[i].msg = "unknown_option"
                 /\ loc[u].queries = <<>>
                 /\ fsm[u] = "Idle"

\* -------------------------------------------------------------------- C3
\* C3: the news fetcher hands its caller a list in every case: the upstream's
\* articles on success, the empty list when the upstream answers with a
\* non-success status, cannot be reached, does not answer in time or sends a
\* malformed body.  Stated of the site's fetcher, through the page that calls it.
C3_WebFetchNeverRaises ==
    \A c \in Clients :
        (wloc[c].req = "home" /\ wpc[c] \in {"responded", "hung"}) =>
            LET r == wloc[c].upstream[1] IN
            /\ wpc[c] = "responded"
            /\ wloc[c].resp =
                  Render("index", IF UpstreamSuccess(r) THEN ArticlesOf(r) ELSE <<>>)

\* -------------------------------------------------------------------- C8
\* the credentials of the login request of client c match a stored account
Verified(c) ==
    \E a \in accounts :
        /\ a.email = wloc[c].email
        /\ check_password_hash(a.password, wloc[c].password)

\* C8: a login POST with non-blank email and password is answered in one of two
\* ways only.  Either it logs in the account of that email, whose stored hash
\* the password verifies against; or it fails, and then the answer is the same
\* (the generic invalid-credentials message, a redirect to the login page, the
\* session as it was) whether the email was unknown or the password wrong.
\* (Accounts are never removed, so credentials that verified at the request
\* still verify.)
C8_LoginFailureIsGeneric ==
    \A c \in Clients :
        (wpc[c] = "responded" /\ wloc[c].req = "login_post" /\ ~wloc[c].blank) =>
            \/ /\ wloc[c].resp = Redirect("profile", "welcome")
               /\ Verified(c)
               /\ \E a \in accounts : a.email = wloc[c].email /\ wsession[c] = a.id
            \/ /\ wloc[c].resp = Redirect("login", "invalid_credentials")
               /\ wsession[c] = wloc[c].before
               /\ wloc[c].existed => ~Verified(c)

\* Two failed logins side by side, one with an unknown email and one with a known
\* email and a wrong password, with the same response.
C8_Witness ==
    \E c \in Clients, d \in Clients :
        /\ wpc[c] = "responded" /\ wloc[c].req = "login_post" /\ ~wloc[c].blank
        /\ wpc[d] = "responded" /\ wloc[d].req = "login_post" /\ ~wloc[d].blank
        /\ ~wloc[c].existed /\ wloc[d].existed /\ ~Verified(d)
        /\ wloc[c].resp = wloc[d].resp
        /\ wsession[c] = 0 /\ wsession[d] = 0

\* -------------------------------------------------------------------- C9
\* C9: a registration with a blank required field, or with an email that has an
\* account when the handler looks it up, inserts no row and is redirected to the
\* registration form with an error; under every interleaving of registrations
\* the table holds at most one account per email; and an account once stored is
\* never modified or deleted.
C9_Rejected ==
    \A c \in Clients :
        (/\ wpc[c] = "responded" /\ wloc[c].req = "register_post"
         /\ (wloc[c].blank \/ wloc[c].existed)) =>
            /\ wloc[c].new_user = <<>>
            /\ wloc[c].resp =
                  IF wloc[c].blank THEN Redirect("register", "fill_all_fields")
                  ELSE Redirect("register", "email_registered")

C9_OneAccountPerEmail ==
    \A a \in accounts, b \in accounts : a.email = b.email => a = b

C9_Registration ==
    /\ [](C9_Rejected /\ C9_OneAccountPerEmail)
    /\ [][accounts \subseteq accounts']_vars

\* Two concurrent registrations of the same new email have both been answered:
\* one was stored, the other was refused by the database.
C9_Witness ==
    \E c \in Clients, d \in Clients :
        /\ c # d
        /\ wpc[c] = "responded" /\ wloc[c].req = "register_post"
        /\ wpc[d] = "responded" /\ wloc[d].req = "register_post"
        /\ wloc[c].email = wloc[d].email
        /\ wloc[c].resp = Redirect("login", "registered")
        /\ wloc[d].new_user # <<>> /\ wloc[d].resp = ServerError
        /\ Cardinality(UsersByEmail(accounts, wloc[c].email)) = 1

\* ------------------------------------------------------------------- C10
\* what /profile and /logout answer to a request that has a session
Served(c) ==
    IF wloc[c].req = "profile" THEN wloc[c].resp = Render("profile", <<>>)
    ELSE wloc[c].resp = Redirect("home", "logged_out") /\ wsession[c] = 0

C10_Gate ==
    \A c \in Clients :
        wpc[c] = "responded" =>
            /\ wloc[c].req \in {"profile", "logout"} =>
                  IF wloc[c].before # 0
                  THEN Served(c)
                  ELSE wloc[c].resp = Unauthorized /\ wsession[c] = 0
            /\ wloc[c].req = "home" =>
                  /\ wloc[c].resp # Unauthorized
                  /\ wsession[c] = wloc[c].before

\* a session begins only with a login whose credentials verify, and ends only
\* with a logout
C10_SessionLife ==
    \A c \in Clients :
        /\ (wsession[c] = 0 /\ wsession'[c] # 0) =>
              /\ wloc'[c].req = "login_post"
              /\ \E a \in accounts :
                    /\ a.id = wsession'[c]
                    /\ a.email = wloc'[c].email
                    /\ check_password_hash(a.password, wloc'[c].password)
        /\ (wsession[c] # 0 /\ wsession'[c] = 0) => wloc'[c].req = "logout"

\* C10: /profile and /logout are served only to a requester whose session was
\* established by a successful login and not yet ended by a logout; without such
\* a session they redirect to the login page; / is never gated.
C10_SessionGate == []C10_Gate /\ [][C10_SessionLife]_vars

\* A client without a session asks for /profile and is sent to the login page,
\* while another client, logged in, is served its profile.
C10_Witness ==
    \E c \in Clients :
        /\ wpc[c] = "responded" /\ wloc[c].req = "profile"
        /\ wloc[c].resp = Unauthorized
        /\ accounts # {}
        /\ \E d \in Clients : d # c /\ wsession[d] # 0
              /\ wpc[d] = "responded" /\ wloc[d].req = "profile"

\* ------------------------------------------------------------------- C11
\* C11: the upsert is idempotent under the city value: from every store the
\* program can be in, for every user_id and city, two calls of
\* create_or_update_city in sequence with the same (user_id, city) leave the
\* store one call leaves, and that store holds exactly one record for user_id,
\* with that city.
C11_UpsertIdempotent ==
    \A uid \in Users, city \in POPULAR_CITIES :
        LET once == create_or_update_city(db, uid, city)
            twice == create_or_update_city(once, uid, city)
        IN  /\ twice = once
            /\ Cardinality(RowsOf(once, uid)) = 1
            /\ \A r \in RowsOf(once, uid) : r.city = city
            /\ \A other \in Users \ {uid} : RowsOf(once, other) = RowsOf(db, other)

\* A call has found the record of its user already holding the city it was
\* given (the second of two equal calls), has committed, and has left the store
\* as it was, while the other user holds a record too.
C11_Witness ==
    \E p \in Users :
        /\ loc[p].handler = "direct" /\ pc[p] = "done"
        /\ loc[p].stored /\ ~loc[p].wrote /\ loc[p].info # 0
        /\ SelectCity(db, loc[p].uid) = loc[p].arg
        /\ \E other \in Users \ {loc[p].uid} : RowsOf(db, other) # {}

\* ------------------------------------------------------------------- C12
\* the call of p commits in this step
Commits(p) == pc[p] = "cuc_commit" /\ pc'[p] = "done"

\* Concurrent calls for different users are independent: a commit changes the
\* record of its own user only.
C12_Independent ==
    \A p \in Users :
        Commits(p) => \A other \in Users \ {loc[p].uid} :
                          RowsOf(db', other) = RowsOf(db, other)

\* C12: concurrent upserts, of one user_id with different cities included,
\* under every interleaving of their lookups and commits: every call completes
\* (the database never refuses the commit a call has prepared), the city stored
\* for a user is the one of the call that committed last, and calls for
\* different users are independent.
C12_LastWriteWins ==
    /\ [](\A p \in Users : pc[p] = "cuc_commit" => CommitAllowed(db, loc[p].pending))
    /\ [][\A p \in Users : Commits(p) => SelectCity(db', loc[p].uid) = loc[p].arg]_vars
    /\ [][C12_Independent]_vars

\* ------------------------------------------------------------------- C13
\* the options news_start is to offer to user u after a lookup with that result
Offered(u, lookup) ==
    (IF lookup = "ok" /\ SelectCity(db, u) # NoText THEN <<SelectCity(db, u)>> ELSE <<>>)
        \o <<VsiaUkraina, PoshukPoMistakh>>

C14_Original ==
    vout.done => vout.raw = vout.normalized

\* C14 as amended: valid_city is a plain membership test in the title-cased
\* allow-list; the normalisation is made by its callers.  For every string s the
\* validation the handlers make, valid_city(title(trim(s))), gives the same for
\* s, for the normal form of s, for s in lower case and for s with spaces around
\* it; and a string valid_city accepts as it is, is accepted in normal form too.
C14_CallersNormalize ==
    vout.done =>
        /\ vout.twice = vout.normalized
        /\ vout.lowered = vout.normalized
        /\ vout.padded = vout.normalized
        /\ vout.raw => vout.normalized

\* A string that is not in normal form (a space before it, lower case) and names
\* a known city: valid_city refuses it as it is and accepts its normal form.
C14_Witness ==
    /\ vout.done
    /\ vin = <<" ", "l", "v", "i", "v">>
    /\ ~vout.raw /\ vout.normalized /\ vout.twice /\ vout.lowered /\ vout.padded

\* ------------------------------------------------------------------- C15
\* C15: in every reachable state every city stored in a preference record is a
\* member of the title-cased allow-list, whatever the users have sent.
C15_StoredCitiesAreValid ==
    \A r \in db : r.city \in POPULAR_CITIES

\* Both users have a record; one of them was written from the text " kYiv ",
\* which is stored in its normal form.
C15_Witness ==
    /\ \A u \in Users : RowsOf(db, u) # {}
    /\ \E u \in Users :
          /\ loc[u].handler = "set_main_city" /\ loc[u].wrote
          /\ SelectCity(db, u) = Kyiv

\* ------------------------------------------------------------------- C16
\* C16: every news fetch of the bot is issued by choose_news_option for a user
\* in AwaitingNewsOption, with the whole-country term or the user's own stored
\* city, or by search_news_by_city for a user in AwaitingSearchCity, with the
\* normalised text, which is a known city; the query is never a text that did
\* not pass the validation.
C16_FetchQueriesAreValidated ==
    \A u \in Users :
        /\ loc[u].queries # <<>> =>
              /\ Len(loc[u].queries) = 1
              /\ loc[u].queries[1] \in {Ukraina} \cup POPULAR_CITIES
              /\ \/ /\ loc[u].handler = "choose_news_option"
                    /\ loc[u].from = "option"
                    /\ \/ loc[u].queries[1] = Ukraina
                       \/ /\ loc[u].queries[1] = SelectCity(db, u)
                          /\ loc[u].queries[1] = loc[u].arg
                 \/ /\ loc[u].handler = "search_news_by_city"
                    /\ loc[u].from = "news_city"
                    /\ loc[u].valid
                    /\ loc[u].queries[1] = loc[u].arg
                    /\ loc[u].arg \in POPULAR_CITIES
        /\ pc[u] = "fetch" =>
              /\ loc[u].handler \in {"choose_news_option", "search_news_by_city"}
              /\ loc[u].query \in {Ukraina} \cup POPULAR_CITIES

\* A user has asked for the news of their own stored city, and another user has
\* searched the news of a city typed in.
C16_Witness ==
    \E u \in Users, w \in Users :
        /\ loc[u].handler = "choose_news_option"
        /\ loc[u].queries = <<Lviv>> /\ SelectCity(db, u) = Lviv
        /\ loc[w].handler = "search_news_by_city"
        /\ loc[w].queries = <<Kyiv>>

\* ------------------------------------------------------------------- C17
\* the handler task of user a takes this step
Stepped(a) == pc'[a] # pc[a] \/ loc'[a] # loc[a]

\* No step of the handling of a message of user a changes the conversation
\* state or the preference record of another user, and no step of start_handler
\* changes any conversation state or any record.
C17_Frame ==
    \A a \in Users :
        Stepped(a) =>
            /\ \A b \in Users \ {a} :
                  fsm'[b] = fsm[b] /\ RowsOf(db', b) = RowsOf(db, b)
            /\ (loc[a].handler = "start_handler" \/ loc'[a].handler = "start_handler")
                  => (fsm' = fsm /\ db' = db)

\* /start is handled by start_handler in every conversation state, and its one
\* reply is the welcome text with the two-button keyboard.
C17_Start ==
    \A u \in Users :
        /\ loc[u].kind = "start" <=> loc[u].handler = "start_handler"
        /\ (Ended(u) /\ loc[u].handler = "start_handler") =>
              /\ loc[u].out = <<Reply("welcome", "main_kb", main_kb)>>
              /\ loc[u].out[1].buttons = <<VybratyOsnovneMisto, Novyny>>
              /\ fsm[u] = loc[u].from

\* C17: handling a message of user A, in any conversation state and under any
\* interleaving with the handlers of other users, changes neither the
\* conversation state nor the preference record of another user B; and /start
\* changes no conversation state and no record, it only replies with the welcome
\* text and the two-button keyboard.
C17_OtherUsersUntouched == []C17_Start /\ [][C17_Frame]_vars

\* /start has been answered to a user in the middle of the city wizard, who is
\* still in it, while another user with a stored city is choosing a news option.
C17_Witness ==
    \E a \in Users, b \in Users :
        /\ a # b
        /\ pc[a] = "done" /\ loc[a].handler = "start_handler"
        /\ loc[a].from = "set_main_city" /\ fsm[a] = "set_main_city"
        /\ fsm[b] = "option" /\ RowsOf(db, b) # {}

\* ------------------------------------------------------------------- C18
\* Which handler takes the message of user u, by the state it met and by the
\* command or button it is: in AwaitingMainCity everything but /start and the
\* choose-city command or button goes to set_main_city, the news command and
\* button included, which are no known city and are re-prompted; in
\* AwaitingNewsOption and AwaitingSearchCity the news and the choose-city
\* commands and buttons go to news_start and choose_city_start, which restart
\* their wizards.
C18_Routing ==
    \A u \in Users :
        loc[u].handler # "none" =>
            /\ loc[u].from = "set_main_city" =>
                  /\ loc[u].handler =
                        IF loc[u].kind = "start" THEN "start_handler"
                        ELSE IF loc[u].kind = "choosecity" THEN "choose_city_start"
                        ELSE "set_main_city"
                  /\ loc[u].kind = "news" =>
                        /\ ~loc[u].valid
                        /\ Ended(u) => Reprompted(u)
            /\ loc[u].from \in {"option", "news_city"} =>
                  /\ loc[u].kind = "news" =>
                        /\ loc[u].handler = "news_start"
                        /\ fsm[u] = "option"
                        /\ Ended(u) => loc[u].out[1].msg = "choose_option"
                  /\ loc[u].kind = "choosecity" =>
                        /\ loc[u].handler = "choose_city_start"
                        /\ fsm[u] = "set_main_city"
                        /\ Ended(u) => loc[u].out[1].msg = "ask_main_city"

\* AwaitingMainCity is left only by set_main_city handling a text that
\* normalises to a known city.
C18_LeavesMainCity ==
    \A u \in Users :
        (fsm[u] = "set_main_city" /\ fsm'[u] # "set_main_city") =>
            /\ loc[u].handler = "set_main_city"
            /\ loc[u].from = "set_main_city"
            /\ loc[u].valid /\ loc[u].arg \in POPULAR_CITIES
            /\ fsm'[u] = "Idle"

\* C18: handlers are matched in registration order.  In AwaitingMainCity every
\* text but /start and the choose-city command or button is a city candidate,
\* the news command and button included, and the state is left only by a text
\* that normalises to a known city; in AwaitingNewsOption and
\* AwaitingSearchCity the news and choose-city commands and buttons take
\* precedence over the state handler and restart their wizards.
C18_RegistrationOrder == []C18_Routing /\ [][C18_LeavesMainCity]_vars

\* One user in AwaitingMainCity sent the news command or button and was
\* re-prompted there; the other, in AwaitingSearchCity, sent the choose-city
\* command or button and is now in AwaitingMainCity.
C18_Witness ==
    \E u \in Users, w \in Users :
        /\ pc[u] = "done" /\ loc[u].from = "set_main_city" /\ loc[u].kind = "news"
        /\ loc[u].handler = "set_main_city" /\ fsm[u] = "set_main_city"
        /\ pc[w] = "done" /\ loc[w].from = "news_city" /\ loc[w].kind = "choosecity"
        /\ fsm[w] = "set_main_city"

====
